---- MODULE Spec2Model ----
(***************************************************************************)
(* Model of app/main.py: the /data/transform handler (transform_data) and  *)
(* the /web/fetch handler (fetch_url).                                      *)
(*                                                                         *)
(* JSON values are modelled as Python sees them after pydantic parsing:    *)
(* a value is a record [t, v] with t the Python type and v a sequence of   *)
(* integers (the code points of a str, the single number of an int or a    *)
(* bool, empty for None; JSON numbers are taken as integers).  A Record   *)
(* (a Python dict) is a sequence of                                        *)
(* <<key, value>> pairs with distinct keys, in insertion order; a key is a *)
(* sequence of code points.                                                *)
(***************************************************************************)
EXTENDS Integers, Sequences, FiniteSets, TLC

VARIABLES
    \* transform_data: the request, the loop's position and local `result`
    data, operations, sort_key, result, opIdx, tpc, tresp,
    \* fetch_url: per in-flight request
    fpc, freq, client, openClients, calls, elapsed, pending, fresp

tvars == <<data, operations, sort_key, result, opIdx, tpc, tresp>>
fvars == <<fpc, freq, client, openClients, calls, elapsed, pending, fresp>>
vars == <<data, operations, sort_key, result, opIdx, tpc, tresp,
          fpc, freq, client, openClients, calls, elapsed, pending, fresp>>

----------------------------------------------------------------------------
(* Bounds *)
MaxBatch == 2
MaxOps == 2
NumReqs == 2
MaxTimeout == 2

----------------------------------------------------------------------------
(* Python values *)

PyNone == [t |-> "none", v |-> <<>>]
PyInt(n) == [t |-> "int", v |-> <<n>>]
PyBool(b) == [t |-> "bool", v |-> <<b>>]
PyStr(s) == [t |-> "str", v |-> s]
EmptyStr == PyStr(<<>>)

IsNumeric(x) == x.t \in {"int", "bool"}

\* x == y in Python: bool is a subclass of int (True == 1, False == 0);
\* str and None equal only themselves.
PyEq(x, y) ==
    IF IsNumeric(x) /\ IsNumeric(y) THEN x.v = y.v ELSE x = y

RECURSIVE StrLess(_, _)
\* s < t for str: lexicographic by code point, a proper prefix is smaller.
StrLess(s, t) ==
    IF t = <<>> THEN FALSE
    ELSE IF s = <<>> THEN TRUE
    ELSE IF Head(s) # Head(t) THEN Head(s) < Head(t)
    ELSE StrLess(Tail(s), Tail(t))

\* x < y is defined (raises no TypeError)
PyComparable(x, y) ==
    \/ IsNumeric(x) /\ IsNumeric(y)
    \/ x.t = "str" /\ y.t = "str"

PyLess(x, y) ==
    IF IsNumeric(x) THEN x.v[1] < y.v[1] ELSE StrLess(x.v, y.v)

\* bool(x) is False
Falsy(x) ==
    \/ x.t = "none"
    \/ x.t = "str" /\ x.v = <<>>
    \/ IsNumeric(x) /\ x.v[1] = 0

UpperChar(c) == IF c >= 97 /\ c <= 122 THEN c - 32 ELSE c
LowerChar(c) == IF c >= 65 /\ c <= 90 THEN c + 32 ELSE c

\* v.upper() if isinstance(v, str) else v
UpperValue(x) ==
    IF x.t = "str" THEN PyStr([i \in 1..Len(x.v) |-> UpperChar(x.v[i])]) ELSE x
\* v.lower() if isinstance(v, str) else v
LowerValue(x) ==
    IF x.t = "str" THEN PyStr([i \in 1..Len(x.v) |-> LowerChar(x.v[i])]) ELSE x

----------------------------------------------------------------------------
(* dicts *)

Keys(item) == {item[i][1] : i \in 1..Len(item)}
Values(item) == [i \in 1..Len(item) |-> item[i][2]]

\* item.get(key, default)
Get(item, key, default) ==
    IF \E i \in 1..Len(item) : item[i][1] = key
    THEN item[CHOOSE i \in 1..Len(item) : item[i][1] = key][2]
    ELSE default

RECURSIVE InsertByKey(_, _)
\* insertion of a (key, value) pair into a tuple sorted by key; keys of a dict
\* are distinct, so the comparison of two pairs is decided by the keys
InsertByKey(sorted, p) ==
    IF sorted = <<>> THEN <<p>>
    ELSE IF StrLess(p[1], sorted[1][1]) THEN <<p>> \o sorted
    ELSE <<sorted[1]>> \o InsertByKey(Tail(sorted), p)

\* a slip: tuple(sorted(item)) iterates the dict's keys only
SortedKeysOnly(item) ==
    LET full == [i \in 1..Len(item) |-> <<item[i][1], PyNone>>]
        RECURSIVE Ins(_, _)
        Ins(sorted, p) ==
            IF sorted = <<>> THEN <<p>>
            ELSE IF StrLess(p[1], sorted[1][1]) THEN <<p>> \o sorted
            ELSE <<sorted[1]>> \o Ins(Tail(sorted), p)
        RECURSIVE Srt(_)
        Srt(it) == IF it = <<>> THEN <<>>
                   ELSE Ins(Srt(SubSeq(it, 1, Len(it) - 1)), it[Len(it)])
    IN  Srt(full)

RECURSIVE SortedItems(_)
\* tuple(sorted(item.items()))
SortedItems(item) ==
    IF item = <<>> THEN <<>>
    ELSE InsertByKey(SortedItems(SubSeq(item, 1, Len(item) - 1)), item[Len(item)])

\* equality of two item tuples: same length, pairwise equal keys and values
TupleEq(s, t) ==
    /\ Len(s) = Len(t)
    /\ \A i \in 1..Len(s) : s[i][1] = t[i][1] /\ PyEq(s[i][2], t[i][2])

\* item_tuple in seen
InSeen(tup, seen) == \E s \in seen : TupleEq(s, tup)

----------------------------------------------------------------------------
(* The operations of transform_data *)

\* a slip: all(v for v in item.values()) also rejects 0 and false
KeepTruthy(item) == \A i \in 1..Len(item) : ~Falsy(item[i][2])

\* all(v is not None and v != "" for v in item.values())
KeepNonNull(item) ==
    \A i \in 1..Len(item) : item[i][2] # PyNone /\ ~PyEq(item[i][2], EmptyStr)

FilterNull(items) == SelectSeq(items, KeepNonNull)

RECURSIVE DedupLoop(_, _, _, _)
DedupLoop(items, i, seen, deduped) ==
    IF i > Len(items) THEN deduped
    ELSE LET item_tuple == SortedItems(items[i])
         IN  IF ~InSeen(item_tuple, seen)
             THEN DedupLoop(items, i + 1, seen \cup {item_tuple},
                            Append(deduped, items[i]))
             ELSE DedupLoop(items, i + 1, seen, deduped)

\* a slip: the loop starts at the second item
DeduplicateSkipFirst(items) == DedupLoop(items, 2, {}, <<>>)

Deduplicate(items) == DedupLoop(items, 1, {}, <<>>)

\* lambda x: x.get(request.sort_key, "")
SortKeyOf(item, key) == Get(item, key.v, EmptyStr)

\* sorted() raises TypeError: some comparison the sort must make is undefined
SortRaises(items, key) ==
    \E i, j \in 1..Len(items) :
        i # j /\ ~PyComparable(SortKeyOf(items[i], key), SortKeyOf(items[j], key))

RECURSIVE InsertBeforeEqual(_, _, _)
\* a slip: x goes before the elements equal to it (an unstable sort)
InsertBeforeEqual(sorted, x, key) ==
    IF sorted = <<>> THEN <<x>>
    ELSE IF ~PyLess(SortKeyOf(sorted[Len(sorted)], key), SortKeyOf(x, key))
         THEN Append(InsertBeforeEqual(SubSeq(sorted, 1, Len(sorted) - 1), x, key),
                     sorted[Len(sorted)])
         ELSE Append(sorted, x)

RECURSIVE InsertStable(_, _, _)
\* x goes after every element that is not greater than it
InsertStable(sorted, x, key) ==
    IF sorted = <<>> THEN <<x>>
    ELSE IF PyLess(SortKeyOf(x, key), SortKeyOf(sorted[Len(sorted)], key))
         THEN Append(InsertStable(SubSeq(sorted, 1, Len(sorted) - 1), x, key),
                     sorted[Len(sorted)])
         ELSE Append(sorted, x)

RECURSIVE Sorted(_, _)
\* sorted(result, key=...), a stable ascending sort
Sorted(items, key) ==
    IF items = <<>> THEN <<>>
    ELSE InsertStable(Sorted(SubSeq(items, 1, Len(items) - 1), key),
                      items[Len(items)], key)

UppercaseValues(items) ==
    [n \in 1..Len(items) |->
        [i \in 1..Len(items[n]) |-> <<items[n][i][1], UpperValue(items[n][i][2])>>]]

LowercaseValues(items) ==
    [n \in 1..Len(items) |->
        [i \in 1..Len(items[n]) |-> <<items[n][i][1], LowerValue(items[n][i][2])>>]]

KnownOps == {"filter_null", "deduplicate", "sort_by_key",
             "uppercase_values", "lowercase_values"}

\* HTTPException(status_code=400, detail=...)
BadRequest(kind, what) == [status |-> 400, detail |-> <<kind, what>>]

\* a slip: sorted() outside the try, its TypeError becomes a 500
ApplyOpSortUncaught(operation, items, key) ==
    IF operation = "filter_null" THEN [ok |-> TRUE, val |-> FilterNull(items)]
    ELSE IF operation = "deduplicate" THEN [ok |-> TRUE, val |-> Deduplicate(items)]
    ELSE IF operation = "sort_by_key" THEN
        IF Falsy(key)
        THEN [ok |-> FALSE, err |-> BadRequest("sort_key required", "sort_by_key")]
        ELSE IF SortRaises(items, key)
        THEN [ok |-> FALSE, err |-> [status |-> 500, detail |-> <<"TypeError", "sort_by_key">>]]
        ELSE [ok |-> TRUE, val |-> Sorted(items, key)]
    ELSE IF operation = "uppercase_values" THEN [ok |-> TRUE, val |-> UppercaseValues(items)]
    ELSE IF operation = "lowercase_values" THEN [ok |-> TRUE, val |-> LowercaseValues(items)]
    ELSE [ok |-> FALSE, err |-> BadRequest("unknown operation", operation)]

\* One iteration of `for operation in request.operations`: the new value of
\* `result`, or the HTTPException raised.
ApplyOp(operation, items, key) ==
    IF operation = "filter_null" THEN [ok |-> TRUE, val |-> FilterNull(items)]
    ELSE IF operation = "deduplicate" THEN [ok |-> TRUE, val |-> Deduplicate(items)]
    ELSE IF operation = "sort_by_key" THEN
        IF Falsy(key)
        THEN [ok |-> FALSE, err |-> BadRequest("sort_key required", "sort_by_key")]
        ELSE IF SortRaises(items, key)
        THEN [ok |-> FALSE, err |-> BadRequest("cannot sort", "sort_by_key")]
        ELSE [ok |-> TRUE, val |-> Sorted(items, key)]
    ELSE IF operation = "uppercase_values" THEN [ok |-> TRUE, val |-> UppercaseValues(items)]
    ELSE IF operation = "lowercase_values" THEN [ok |-> TRUE, val |-> LowercaseValues(items)]
    ELSE [ok |-> FALSE, err |-> BadRequest("unknown operation", operation)]

\* The value `result` has after the loop ran over `ops` from `items`, when no
\* iteration raised: the operations applied one after the other, left to right.
RECURSIVE RunOps(_, _, _)
RunOps(ops, items, key) ==
    IF ops = <<>> THEN [ok |-> TRUE, val |-> items]
    ELSE LET r == ApplyOp(Head(ops), items, key)
         IN  IF r.ok THEN RunOps(Tail(ops), r.val, key) ELSE r

----------------------------------------------------------------------------
(* Requests to /data/transform *)

Kn == <<110>>                 \* "n"
Kv == <<118>>                 \* "v"
Kid == <<105, 100>>           \* "id"
Kname == <<110, 97, 109, 101>>      \* "name"
Kvalue == <<118, 97, 108, 117, 101>>  \* "value"
Alice == <<65, 108, 105, 99, 101>>
Bob == <<66, 111, 98>>

RecA1 == << <<Kn, PyStr(<<97>>)>>, <<Kv, PyInt(1)>> >>      \* {"n": "a", "v": 1}
RecA1r == << <<Kv, PyInt(1)>>, <<Kn, PyStr(<<97>>)>> >>     \* {"v": 1, "n": "a"}
RecATrue == << <<Kn, PyStr(<<97>>)>>, <<Kv, PyBool(1)>> >>  \* {"n": "a", "v": true}
RecNull == << <<Kn, PyStr(<<65>>)>>, <<Kv, PyNone>> >>      \* {"n": "A", "v": null}
RecB0 == << <<Kn, PyStr(<<66>>)>>, <<Kv, PyInt(0)>> >>      \* {"n": "B", "v": 0}
RecEmptyStr == << <<Kn, EmptyStr>> >>                       \* {"n": ""}
RecNoFields == <<>>                                         \* {}

Records == {RecA1, RecA1r, RecATrue, RecNull, RecB0, RecEmptyStr, RecNoFields}

\* the example of the handler's docstring
RecAlice == << <<Kid, PyInt(1)>>, <<Kname, PyStr(Alice)>>, <<Kvalue, PyNone>> >>
RecBob == << <<Kid, PyInt(2)>>, <<Kname, PyStr(Bob)>>, <<Kvalue, PyInt(100)>> >>
ExampleBatch == <<RecAlice, RecBob, RecAlice>>

SeqsUpTo(S, n) == UNION {[1..k -> S] : k \in 0..n}

Batches == SeqsUpTo(Records, MaxBatch) \cup {ExampleBatch}
OpNames == KnownOps \cup {"reverse"}
OpLists == SeqsUpTo(OpNames, MaxOps)
SortKeys == {PyNone, EmptyStr, PyStr(Kn), PyStr(Kv)}

NoResponse == [status |-> 0]

TInit ==
    /\ data \in Batches
    /\ operations \in OpLists
    /\ sort_key \in SortKeys
    /\ result = <<>>
    /\ opIdx = 0
    /\ tpc = "start"
    /\ tresp = NoResponse

\* result = request.data.copy()
TransformStart ==
    /\ tpc = "start"
    /\ result' = data
    /\ opIdx' = 1
    /\ tpc' = "loop"
    /\ UNCHANGED <<data, operations, sort_key, tresp>>
    /\ UNCHANGED fvars

\* a slip: every operation is applied to request.data, not to `result`
TransformStepOnInput ==
    /\ tpc = "loop"
    /\ opIdx <= Len(operations)
    /\ LET r == ApplyOp(operations[opIdx], data, sort_key)
       IN  IF r.ok
           THEN /\ result' = r.val
                /\ opIdx' = opIdx + 1
                /\ UNCHANGED <<tpc, tresp>>
           ELSE /\ tresp' = r.err
                /\ tpc' = "done"
                /\ UNCHANGED <<result, opIdx>>
    /\ UNCHANGED <<data, operations, sort_key>>
    /\ UNCHANGED fvars

\* one iteration of the loop over request.operations
TransformStep ==
    /\ tpc = "loop"
    /\ opIdx <= Len(operations)
    /\ LET r == ApplyOp(operations[opIdx], result, sort_key)
       IN  IF r.ok
           THEN /\ result' = r.val
                /\ opIdx' = opIdx + 1
                /\ UNCHANGED <<tpc, tresp>>
           ELSE /\ tresp' = r.err
                /\ tpc' = "done"
                /\ UNCHANGED <<result, opIdx>>
    /\ UNCHANGED <<data, operations, sort_key>>
    /\ UNCHANGED fvars

\* the return statement after the loop
TransformReturn ==
    /\ tpc = "loop"
    /\ opIdx > Len(operations)
    /\ tresp' = [status |-> 200,
                 original_count |-> Len(data),
                 result_count |-> Len(result),
                 operations_applied |-> operations,
                 data |-> result]
    /\ tpc' = "done"
    /\ UNCHANGED <<data, operations, sort_key, result, opIdx>>
    /\ UNCHANGED fvars

TNext ==
    \/ TransformStart
    \/ TransformStep
    \/ TransformReturn

TIdle ==
    /\ data = <<>>
    /\ operations = <<>>
    /\ sort_key = PyNone
    /\ result = <<>>
    /\ opIdx = 0
    /\ tpc = "idle"
    /\ tresp = NoResponse

----------------------------------------------------------------------------
(* fetch_url *)

Reqs == 1..NumReqs
Timeouts == 1..MaxTimeout

\* The classes of httpx (and Exception) each raised exception is an instance of.
Bases(exc) ==
    IF exc = "ReadTimeout"
    THEN {exc, "TimeoutException", "TransportError", "RequestError", "HTTPError", "Exception"}
    ELSE IF exc = "ConnectError"
    THEN {exc, "NetworkError", "TransportError", "RequestError", "HTTPError", "Exception"}
    ELSE {exc, "Exception"}

TimeoutExcs == {"ReadTimeout"}
\* what client.request can raise before the timeout elapses
OtherExcs == {"ConnectError", "InvalidURL"}

\* The except clauses of fetch_url, in the order written.
ExceptClauses ==
    << [cls |-> "TimeoutException", status |-> 504, msg |-> "Request timed out after"],
       [cls |-> "HTTPError", status |-> 500, msg |-> "HTTP error occurred"],
       [cls |-> "Exception", status |-> 500, msg |-> "Unexpected error"] >>

\* a slip: the clauses tried with `except httpx.HTTPError` first
HandlerHTTPErrorFirst(exc) ==
    LET order == <<2, 1, 3>>
        k == CHOOSE i \in 1..3 :
                /\ ExceptClauses[order[i]].cls \in Bases(exc)
                /\ \A j \in 1..(i - 1) : ExceptClauses[order[j]].cls \notin Bases(exc)
    IN  ExceptClauses[order[k]]

\* The first clause, in order, whose class the exception is an instance of.
Handler(exc) ==
    ExceptClauses[CHOOSE i \in 1..Len(ExceptClauses) :
        /\ ExceptClauses[i].cls \in Bases(exc)
        /\ \A j \in 1..(i - 1) : ExceptClauses[j].cls \notin Bases(exc)]

\* the HTTPException the matching clause raises
ErrorResponse(exc, timeout) ==
    LET h == Handler(exc)
    IN  [status |-> h.status,
         detail |-> [msg |-> h.msg,
                     timeout |-> IF h.status = 504 THEN timeout ELSE 0,
                     error |-> IF h.status = 504 THEN "" ELSE exc]]

\* httpx.AsyncClient() evaluated by request r: a new client object, named by
\* the request that constructed it
NewClient(r) == r

FIdle ==
    /\ fpc = [r \in Reqs |-> "idle"]
    /\ freq = [r \in Reqs |-> [timeout |-> 0, upstream |-> "none"]]
    /\ client = [r \in Reqs |-> 0]
    /\ openClients = {}
    /\ calls = [r \in Reqs |-> 0]
    /\ elapsed = [r \in Reqs |-> 0]
    /\ pending = [r \in Reqs |-> [kind |-> "none"]]
    /\ fresp = [r \in Reqs |-> NoResponse]

\* a request reaches the handler; start_time is taken
FetchArrive(r) ==
    /\ fpc[r] = "idle"
    /\ \E t \in Timeouts, u \in {"responsive", "silent"} :
          freq' = [freq EXCEPT ![r] = [timeout |-> t, upstream |-> u]]
    /\ fpc' = [fpc EXCEPT ![r] = "try"]
    /\ UNCHANGED <<client, openClients, calls, elapsed, pending, fresp>>
    /\ UNCHANGED tvars

\* async with httpx.AsyncClient() as client: (entry)
FetchOpenClient(r) ==
    /\ fpc[r] = "try"
    /\ client' = [client EXCEPT ![r] = NewClient(r)]
    /\ openClients' = openClients \cup {NewClient(r)}
    /\ fpc' = [fpc EXCEPT ![r] = "with"]
    /\ UNCHANGED <<freq, calls, elapsed, pending, fresp>>
    /\ UNCHANGED tvars

\* response = await client.request(...): the call is issued
FetchRequest(r) ==
    /\ fpc[r] = "with"
    /\ calls' = [calls EXCEPT ![r] = @ + 1]
    /\ elapsed' = [elapsed EXCEPT ![r] = 0]
    /\ fpc' = [fpc EXCEPT ![r] = "await"]
    /\ UNCHANGED <<freq, client, openClients, pending, fresp>>
    /\ UNCHANGED tvars

\* a second passes while the call is outstanding
FetchTick(r) ==
    /\ fpc[r] = "await"
    /\ elapsed[r] < freq[r].timeout
    /\ elapsed' = [elapsed EXCEPT ![r] = @ + 1]
    /\ UNCHANGED <<fpc, freq, client, openClients, calls, pending, fresp>>
    /\ UNCHANGED tvars

\* the client's timeout elapses: client.request raises a TimeoutException
FetchTimeout(r) ==
    /\ fpc[r] = "await"
    /\ elapsed[r] = freq[r].timeout
    /\ \E exc \in TimeoutExcs :
          pending' = [pending EXCEPT ![r] = [kind |-> "raise", exc |-> exc]]
    /\ fpc' = [fpc EXCEPT ![r] = "exit_with"]
    /\ elapsed' = [elapsed EXCEPT ![r] = 0]
    /\ UNCHANGED <<freq, client, openClients, calls, fresp>>
    /\ UNCHANGED tvars

\* the upstream answers in time: client.request returns a response
FetchRespond(r) ==
    /\ fpc[r] = "await"
    /\ freq[r].upstream = "responsive"
    /\ elapsed[r] < freq[r].timeout
    /\ pending' = [pending EXCEPT ![r] = [kind |-> "response"]]
    /\ fpc' = [fpc EXCEPT ![r] = "exit_with"]
    /\ elapsed' = [elapsed EXCEPT ![r] = 0]
    /\ UNCHANGED <<freq, client, openClients, calls, fresp>>
    /\ UNCHANGED tvars

\* client.request raises something that is no timeout
FetchFail(r) ==
    /\ fpc[r] = "await"
    /\ freq[r].upstream = "responsive"
    /\ elapsed[r] < freq[r].timeout
    /\ \E exc \in OtherExcs :
          pending' = [pending EXCEPT ![r] = [kind |-> "raise", exc |-> exc]]
    /\ fpc' = [fpc EXCEPT ![r] = "exit_with"]
    /\ elapsed' = [elapsed EXCEPT ![r] = 0]
    /\ UNCHANGED <<freq, client, openClients, calls, fresp>>
    /\ UNCHANGED tvars

\* a slip: no context manager, the client is closed after a successful call only
FetchCloseOnSuccessOnly(r) ==
    /\ fpc[r] = "exit_with"
    /\ openClients' = IF pending[r].kind = "raise" THEN openClients
                      ELSE openClients \ {client[r]}
    /\ fpc' = [fpc EXCEPT ![r] = IF pending[r].kind = "raise" THEN "except" ELSE "after_with"]
    /\ UNCHANGED <<freq, client, calls, elapsed, pending, fresp>>
    /\ UNCHANGED tvars

\* the async with block is left (normally or by the exception): the client's
\* __aexit__ closes it
FetchCloseClient(r) ==
    /\ fpc[r] = "exit_with"
    /\ openClients' = openClients \ {client[r]}
    /\ fpc' = [fpc EXCEPT ![r] = IF pending[r].kind = "raise" THEN "except" ELSE "after_with"]
    /\ UNCHANGED <<freq, client, calls, elapsed, pending, fresp>>
    /\ UNCHANGED tvars

\* response.status_code is what the upstream sent; try response.json() (the
\* body parses or not) / except: response.text; then the return statement
FetchReturn(r) ==
    /\ fpc[r] = "after_with"
    /\ \E sc \in {200, 404}, parses \in BOOLEAN :
          fresp' = [fresp EXCEPT ![r] =
                    [status |-> 200,
                     status_code |-> sc,
                     content_type |-> IF parses THEN "json" ELSE "text",
                     success |-> sc < 400]]
    /\ fpc' = [fpc EXCEPT ![r] = "done"]
    /\ pending' = [pending EXCEPT ![r] = [kind |-> "none"]]
    /\ UNCHANGED <<freq, client, openClients, calls, elapsed>>
    /\ UNCHANGED tvars

\* a slip: a timeout is answered by one more attempt
FetchExceptRetry(r) ==
    /\ fpc[r] = "except"
    /\ IF pending[r].exc \in TimeoutExcs /\ calls[r] < 2
       THEN /\ fpc' = [fpc EXCEPT ![r] = "try"]
            /\ UNCHANGED fresp
       ELSE /\ fresp' = [fresp EXCEPT ![r] = ErrorResponse(pending[r].exc, freq[r].timeout)]
            /\ fpc' = [fpc EXCEPT ![r] = "done"]
    /\ pending' = [pending EXCEPT ![r] = [kind |-> "none"]]
    /\ UNCHANGED <<freq, client, openClients, calls, elapsed>>
    /\ UNCHANGED tvars

\* the except clauses
FetchExcept(r) ==
    /\ fpc[r] = "except"
    /\ fresp' = [fresp EXCEPT ![r] = ErrorResponse(pending[r].exc, freq[r].timeout)]
    /\ fpc' = [fpc EXCEPT ![r] = "done"]
    /\ pending' = [pending EXCEPT ![r] = [kind |-> "none"]]
    /\ UNCHANGED <<freq, client, openClients, calls, elapsed>>
    /\ UNCHANGED tvars

\* the steps of the handler of request r, once it has arrived
FetchRun(r) ==
    \/ FetchOpenClient(r)
    \/ FetchRequest(r)
    \/ FetchTick(r)
    \/ FetchTimeout(r)
    \/ FetchRespond(r)
    \/ FetchFail(r)
    \/ FetchCloseClient(r)
    \/ FetchReturn(r)
    \/ FetchExcept(r)

FNext == \E r \in Reqs : FetchArrive(r) \/ FetchRun(r)

----------------------------------------------------------------------------
(* Specifications *)

Init == TInit /\ FIdle
Next == TNext
\* one /data/transform request, from any input within the bounds
Spec == Init /\ [][Next]_vars

FetchInit == TIdle /\ FIdle
\* NumReqs concurrent /web/fetch requests
FetchSpec == FetchInit /\ [][FNext]_vars
\* the event loop runs every handler that can take a step, and the client
\* enforces its timeout
FairFetchSpec == FetchSpec /\ \A r \in Reqs : WF_vars(FetchRun(r))

----------------------------------------------------------------------------
(* Claims about transform_data, checked under Spec *)

Done == tpc = "done"
Returned == tpc = "done" /\ tresp.status = 200
FilterThenDedup == <<"filter_null", "deduplicate">>
DedupThenFilter == <<"deduplicate", "filter_null">>

\* C1: the data returned is the left-to-right fold of the operations over the
\* input, each operation applied to the output of the one before it (also at
\* every point inside the loop); the response reports original_count = the
\* input's length, result_count = the returned data's length and
\* operations_applied = the caller's list; [filter_null, deduplicate] on the
\* Alice/Bob/Alice example returns 3, 1 and only the Bob record.
C1_FoldInOrder ==
    /\ tpc = "loop" =>
          LET sofar == RunOps(SubSeq(operations, 1, opIdx - 1), data, sort_key)
          IN  sofar.ok /\ result = sofar.val
    /\ Returned =>
          /\ RunOps(operations, data, sort_key).ok
          /\ tresp.data = RunOps(operations, data, sort_key).val
          /\ tresp.original_count = Len(data)
          /\ tresp.result_count = Len(tresp.data)
          /\ tresp.operations_applied = operations
    /\ (Done /\ data = ExampleBatch /\ operations = FilterThenDedup) =>
          /\ tresp.status = 200
          /\ tresp.original_count = 3
          /\ tresp.result_count = 1
          /\ tresp.data = <<RecBob>>

C1_Witness ==
    /\ Returned
    /\ data = ExampleBatch
    /\ operations = FilterThenDedup
    /\ tresp.data = <<RecBob>>

\* the value a Record has at the sort key, the empty string when it lacks the key
C2_KeyType(item) ==
    IF sort_key.v \in Keys(item)
    THEN (CHOOSE p \in {item[i] : i \in 1..Len(item)} : p[1] = sort_key.v)[2].t
    ELSE "str"

\* two Records of the batch have sort-key values that cannot be ordered
C2_Incomparable(items) ==
    \E i, j \in 1..Len(items) :
        /\ i # j
        /\ LET a == C2_KeyType(items[i])
               b == C2_KeyType(items[j])
           IN  ~(a = "str" /\ b = "str") /\ ~(a \in {"int", "bool"} /\ b \in {"int", "bool"})

C2_Prior(i) == RunOps(SubSeq(operations, 1, i - 1), data, sort_key)

\* operation i is unknown, a sort_by_key without a sort key, or a sort_by_key
\* whose comparison fails on the batch it is given
C2_Offends(i, noKey) ==
    LET op == operations[i]
    IN  \/ op \notin KnownOps
        \/ op = "sort_by_key" /\ noKey
        \/ /\ op = "sort_by_key"
           /\ ~noKey
           /\ C2_Prior(i).ok
           /\ C2_Incomparable(C2_Prior(i).val)

C2_Expected(i, noKey) ==
    LET op == operations[i]
    IN  IF op \notin KnownOps THEN BadRequest("unknown operation", op)
        ELSE IF noKey THEN BadRequest("sort_key required", op)
        ELSE BadRequest("cannot sort", op)

C2_Claim(noKey) ==
    (Done /\ \E i \in 1..Len(operations) : C2_Offends(i, noKey)) =>
        LET first == CHOOSE i \in 1..Len(operations) :
                        /\ C2_Offends(i, noKey)
                        /\ \A j \in 1..(i - 1) : ~C2_Offends(j, noKey)
        IN  /\ tresp.status = 400
            /\ "data" \notin DOMAIN tresp
            /\ tresp = C2_Expected(first, noKey)

\* C2 as stated: an unknown operation, a sort_by_key with no sort key supplied
\* (sort_key absent/null) or a failing sort comparison, at any position, ends
\* the request with HTTP 400 and no data, and the error is that of the first
\* such operation in list order.
C2_AsStated == C2_Claim(sort_key = PyNone)

\* C2 amended: the same, where a sort_by_key also offends when the sort key
\* supplied is the empty string (the handler then reports the sort key as
\* required).
C2_ClientError == C2_Claim(sort_key = PyNone \/ sort_key = EmptyStr)

C2_Witness ==
    /\ Done
    /\ operations = <<"deduplicate", "sort_by_key">>
    /\ sort_key = PyStr(Kv)
    /\ Len(data) = 2
    /\ tresp = BadRequest("cannot sort", "sort_by_key")

\* two Records are the same: the same set of (key, value) pairs
C6_SameRecord(a, b) == {a[i] : i \in 1..Len(a)} = {b[i] : i \in 1..Len(b)}

\* positions of the first occurrence of each distinct Record
C6_FirstAt(items) ==
    {i \in 1..Len(items) : \A j \in 1..(i - 1) : ~C6_SameRecord(items[j], items[i])}

RECURSIVE C6_Pick(_, _, _)
\* the subsequence of items at the positions in keep, in order
C6_Pick(items, keep, i) ==
    IF i > Len(items) THEN <<>>
    ELSE (IF i \in keep THEN <<items[i]>> ELSE <<>>) \o C6_Pick(items, keep, i + 1)

\* C6: the output of deduplicate is exactly the subsequence of the input made
\* of the first occurrence of each distinct Record, in input order, two Records
\* being the same iff they hold the same set of (key, value) pairs.
C6_FirstOccurrences ==
    (Returned /\ operations = <<"deduplicate">>) =>
        tresp.data = C6_Pick(data, C6_FirstAt(data), 1)

\* C7: deduplicate applied twice yields what it yields applied once, and the
\* result is no longer than the input.
C7_DedupIdempotent ==
    /\ (Returned /\ operations = <<"deduplicate">>) =>
          /\ Deduplicate(tresp.data) = tresp.data
          /\ Len(tresp.data) <= Len(data)
    /\ (Returned /\ operations = <<"deduplicate", "deduplicate">>) =>
          /\ tresp.data = Deduplicate(data)
          /\ Len(tresp.data) <= Len(data)

C7_Witness ==
    /\ Returned
    /\ operations = <<"deduplicate", "deduplicate">>
    /\ Len(data) = 2
    /\ Len(tresp.data) = 1

\* the value sort_by_key orders a Record by
C8_KeyValue(item) ==
    IF sort_key.v \in Keys(item)
    THEN (CHOOSE p \in {item[i] : i \in 1..Len(item)} : p[1] = sort_key.v)[2]
    ELSE EmptyStr

C8_Less(x, y) ==
    IF x.t = "str" THEN StrLess(x.v, y.v) ELSE x.v[1] < y.v[1]

\* C8: a successful sort_by_key returns a permutation of its input, ordered
\* non-decreasingly by the value at the sort key (the empty string for a Record
\* without the key), Records with equal sort-key values in their input order.
C8_StableSort ==
    (Returned /\ operations = <<"sort_by_key">>) =>
        LET out == tresp.data
            n == Len(data)
        IN  /\ Len(out) = n
            /\ \E p \in Permutations(1..n) :
                  /\ \A i \in 1..n : out[i] = data[p[i]]
                  /\ \A i, j \in 1..n :
                        i < j => ~C8_Less(C8_KeyValue(out[j]), C8_KeyValue(out[i]))
                  /\ \A i, j \in 1..n :
                        (/\ i < j
                         /\ ~C8_Less(C8_KeyValue(out[i]), C8_KeyValue(out[j])))
                        => p[i] < p[j]

C8_Witness ==
    /\ Returned
    /\ operations = <<"sort_by_key">>
    /\ \E i \in 1..Len(data) : sort_key.v \notin Keys(data[i])
    /\ tresp.data # data

\* every value of the Record is neither null nor the empty string
C9_AllValuesPresent(item) ==
    \A i \in 1..Len(item) :
        item[i][2].t # "none" /\ ~(item[i][2].t = "str" /\ item[i][2].v = <<>>)

\* C9: filter_null keeps exactly the Records all of whose values are non-null
\* and not the empty string (a Record without fields is kept), in input order,
\* and a second filter_null changes nothing.
C9_FilterNull ==
    /\ (Returned /\ operations = <<"filter_null">>) =>
          /\ tresp.data = SelectSeq(data, C9_AllValuesPresent)
          /\ FilterNull(tresp.data) = tresp.data
    /\ (Returned /\ operations = <<"filter_null", "filter_null">>) =>
          tresp.data = SelectSeq(data, C9_AllValuesPresent)

C9_Witness ==
    /\ Returned
    /\ operations = <<"filter_null", "filter_null">>
    /\ Len(data) = 2
    /\ tresp.data = <<RecNoFields>>

\* C10: [filter_null, deduplicate] and [deduplicate, filter_null] return the
\* same data and the same result_count.
C10_Commute ==
    /\ (Done /\ operations = FilterThenDedup) =>
          /\ tresp.status = 200
          /\ tresp.data = RunOps(DedupThenFilter, data, sort_key).val
          /\ tresp.result_count = Len(RunOps(DedupThenFilter, data, sort_key).val)
    /\ (Done /\ operations = DedupThenFilter) =>
          /\ tresp.status = 200
          /\ tresp.data = RunOps(FilterThenDedup, data, sort_key).val
          /\ tresp.result_count = Len(RunOps(FilterThenDedup, data, sort_key).val)

C10_Witness ==
    /\ Returned
    /\ operations = DedupThenFilter
    /\ data = ExampleBatch
    /\ tresp.data = <<RecBob>>

----------------------------------------------------------------------------
(* Claims about fetch_url, checked under FetchSpec and FairFetchSpec *)

\* the response of request r once its except clause has run
C3_Mapped(r, exc, resp) ==
    IF exc \in TimeoutExcs
    THEN /\ resp.status = 504
         /\ resp.detail.msg = "Request timed out after"
         /\ resp.detail.timeout = freq[r].timeout
    ELSE IF "HTTPError" \in Bases(exc)
    THEN resp.status = 500 /\ resp.detail.msg = "HTTP error occurred"
    ELSE resp.status = 500 /\ resp.detail.msg = "Unexpected error"

\* C3: a timeout of the outbound call always becomes the 504 error carrying
\* the configured timeout, never the 500 of a transport error; another
\* transport/protocol error becomes 500, any other failure becomes 500; and a
\* fetch against an endpoint that never responds ends, with the 504 error: every
\* request that reached the handler is eventually answered, and the answer for
\* a silent endpoint is the 504.
C3_ErrorMapping ==
    /\ [][\A r \in Reqs :
            (fpc[r] = "except" /\ fpc'[r] = "done") =>
                C3_Mapped(r, pending[r].exc, fresp'[r])]_vars
    /\ [](\A r \in Reqs :
            (fpc[r] = "done" /\ freq[r].upstream = "silent") =>
                /\ fresp[r].status = 504
                /\ fresp[r].detail.timeout = freq[r].timeout)
    /\ <>[](\A r \in Reqs : fpc[r] \in {"idle", "done"})

C3_Witness ==
    \E r \in Reqs :
        /\ fpc[r] = "done"
        /\ freq[r].upstream = "silent"
        /\ fresp[r].status = 504
        /\ fresp[r].detail.timeout = freq[r].timeout

\* C4: every request that reaches the handler calls the HTTP client exactly
\* once, whatever the outcome: never a second call, and one call made by the
\* time the response is produced.
C4_SingleCall ==
    \A r \in Reqs :
        /\ calls[r] <= 1
        /\ fpc[r] \in {"await", "exit_with", "after_with", "except", "done"} => calls[r] = 1
        /\ fresp[r] # NoResponse => calls[r] = 1

C4_Witness ==
    /\ \A r \in Reqs : fpc[r] = "done" /\ calls[r] = 1
    /\ \E r \in Reqs : fresp[r].status = 504
    /\ \E r \in Reqs : fresp[r].status = 200

\* C5: the client a request opened is closed before the request's response
\* (result or error) is produced, on every exit path; the open clients are
\* exactly those of the requests still inside their with block, and no two
\* requests hold the same client.
C5_ClientReleased ==
    /\ \A r \in Reqs :
          /\ fpc[r] \in {"after_with", "except", "done"} => client[r] \notin openClients
          /\ fresp[r] # NoResponse => client[r] \notin openClients
          /\ fpc[r] \in {"with", "await", "exit_with"} => client[r] \in openClients
    /\ openClients = {client[r] : r \in {q \in Reqs : fpc[q] \in {"with", "await", "exit_with"}}}
    /\ \A r1, r2 \in Reqs :
          (r1 # r2 /\ client[r1] # 0) => client[r1] # client[r2]

C5_Witness ==
    \E r1, r2 \in Reqs :
        /\ fpc[r1] = "done"
        /\ fresp[r1].status = 504
        /\ client[r1] \notin openClients
        /\ fpc[r2] = "await"
        /\ client[r2] \in openClients

====
